---- MODULE Spec2Model ----
(***************************************************************************)
(* Campus wellness backend: the Express handlers of src/server.js over the *)
(* relational schema of src/schema.sql.                                    *)
(*                                                                         *)
(* Every handler is an async function: it runs synchronously up to its     *)
(* first `await pool.execute(...)`, and after each awaited statement up to *)
(* the next one.  One action below is one such piece: the statement the    *)
(* store executes (atomically) together with the handler code that follows *)
(* it up to the next await or the response.  Requests of different clients *)
(* interleave between these pieces.                                        *)
(***************************************************************************)
EXTENDS Integers, Sequences, FiniteSets, Bags, TLC

VARIABLES
  Habit_Log,     \* bag of rows of table Habit_Log (log_id, never read, is left out)
  Appointment,   \* set of rows of table Appointment
  Notification,  \* set of rows of table Notification
  Mood_log,      \* set of rows of table Mood_log
  req,           \* per client: the request it has sent last and where its handler stands
  hist           \* history of the sequential client: the tables when its call started, and the call before

vars == <<Habit_Log, Appointment, Notification, Mood_log, req, hist>>

\* ------------------------------------------------------------------ bounds
MaxLen == 2            \* longest habit_ids array submitted
MaxAppointments == 2   \* appointments created in one behaviour
MaxMoodLogs == 1       \* mood logs saved in one behaviour

\* ------------------------------------------------------------------ schema
\* Seed rows of schema.sql: one student, five habits, one welcome notification.
Student == {101}
Habit == 1..5
NULL == "NULL"
Welcome ==
  [n_id |-> 1, std_id |-> 101, msg |-> <<"Welcome to Campus Wellness!">>, is_read |-> 0,
   appointment_reminder |-> 0, mood_reminder |-> 0, habit_reminder |-> 0]

Clients == {"c1", "c2"}

\* ------------------------------------------------------------------ JS values
\* A JSON body is a function from the keys it carries to their values; a key it
\* does not carry reads as undefined.
EmptyObj == [k \in {} |-> 0]
Drop(o, k) == [f \in DOMAIN o \ {k} |-> o[f]]
\* !x for a numeric field: undefined and 0 are falsy.
FalsyNum(o, k) == k \notin DOMAIN o \/ o[k] = 0
\* !x for a string field: undefined and "" are falsy.
FalsyStr(o, k) == k \notin DOMAIN o \/ o[k] = ""
\* Array.isArray(x)
IsArray(o, k) == k \in DOMAIN o /\ o[k].isArray
\* x ?? null
OrNull(o, k) == IF k \in DOMAIN o THEN o[k] ELSE NULL
Range(s) == {s[i] : i \in 1..Len(s)}

\* ------------------------------------------------------------------ requests
Idle == [op |-> "none", pc |-> "idle", body |-> EmptyObj, date |-> "", i |-> 0,
         code |-> 0, rows |-> EmptyBag]
Await(op, body, pc) == [op |-> op, pc |-> pc, body |-> body, date |-> "", i |-> 0,
                        code |-> 0, rows |-> EmptyBag]
\* res.status(code).json(...): the handler has answered and is over.
Respond(r, code) == [r EXCEPT !.pc = "done", !.code = code]
\* The client has no call outstanding (it never sent one, got its answer, or gave up on one).
Free(c) == req[c].pc \in {"idle", "done", "hung"}

Tables == [hl |-> Habit_Log, ap |-> Appointment, nt |-> Notification, ml |-> Mood_log]
NoCall == [op |-> "none", body |-> EmptyObj, code |-> 0]
\* History kept for the sequential client only: the tables at the start of its
\* call (h = "tables") and also the call that completed before it (h = "calls").
\* For two racing calls (h = "race"): the tables when the first of them starts,
\* that is, at a start that finds no other client's call begun.
Track(c, h) ==
  IF h = "none" THEN hist
  ELSE IF h = "race"
  THEN IF \A d \in Clients \ {c} : req[d].pc = "idle"
       THEN [pre |-> Tables, last |-> NoCall] ELSE hist
  ELSE [pre |-> Tables,
        last |-> IF h = "calls" /\ req[c].pc = "done"
                 THEN [op |-> req[c].op, body |-> req[c].body, code |-> req[c].code]
                 ELSE NoCall]

\* ------------------------------------------------------------------ Habit_Log statements
\* Mutants of the DELETE: it is left out; it forgets the day; it compares the day
\* the wrong way round.
DeleteHabitLog_Nothing(log, std_id, log_date) == log
DeleteHabitLog_AllDays(log, std_id, log_date) ==
  LET keep == {r \in DOMAIN log : r.std_id # std_id}
  IN [r \in keep |-> log[r]]
DeleteHabitLog_OtherDays(log, std_id, log_date) ==
  LET keep == {r \in DOMAIN log : ~(r.std_id = std_id /\ r.log_date # log_date)}
  IN [r \in keep |-> log[r]]
\* DELETE FROM Habit_Log WHERE std_id = ? AND log_date = ?
DeleteHabitLog(log, std_id, log_date) ==
  LET keep == {r \in DOMAIN log : ~(r.std_id = std_id /\ r.log_date = log_date)}
  IN [r \in keep |-> log[r]]
\* The foreign keys of Habit_Log: the student and the habit must exist.
HabitLogAccepts(std_id, hid) == std_id \in Student /\ hid \in Habit
\* Mutant of the INSERT: completed is left to the column's default, 0.
InsertHabitLog_Default(log, std_id, hid, log_date) ==
  log (+) SetToBag({[std_id |-> std_id, habit_id |-> hid, log_date |-> log_date,
                     completed |-> 0]})
\* INSERT INTO Habit_Log (std_id, habit_id, log_date, completed) VALUES (?, ?, ?, 1)
InsertHabitLog(log, std_id, hid, log_date) ==
  log (+) SetToBag({[std_id |-> std_id, habit_id |-> hid, log_date |-> log_date,
                     completed |-> 1]})
\* Mutant of the SELECT: it forgets the day.
SelectHabitLog_AnyDay(log, std_id, log_date) ==
  LET hit == {r \in DOMAIN log : r.std_id = std_id}
      out == {[habit_id |-> r.habit_id, completed |-> r.completed] : r \in hit}
  IN [o \in out |-> 1]
\* SELECT habit_id, completed FROM Habit_Log WHERE std_id = ? AND log_date = ?
SelectHabitLog(log, std_id, log_date) ==
  LET hit == {r \in DOMAIN log : r.std_id = std_id /\ r.log_date = log_date}
      out == {[habit_id |-> r.habit_id, completed |-> r.completed] : r \in hit}
      n(o) == LET src == {r \in hit : r.habit_id = o.habit_id /\ r.completed = o.completed}
                  sum[S \in SUBSET src] ==
                    IF S = {} THEN 0
                    ELSE LET x == CHOOSE x \in S : TRUE IN log[x] + sum[S \ {x}]
              IN sum[src]
  IN [o \in out |-> n(o)]
\* Mutant of the validation: an empty array is refused as well.
HabitLogInvalid_EmptyArray(body) ==
  \/ FalsyNum(body, "std_id") \/ ~IsArray(body, "habit_ids") \/ FalsyStr(body, "log_date")
  \/ Len(body.habit_ids.items) = 0
\* The validation of POST /habit-log.
HabitLogInvalid(body) ==
  FalsyNum(body, "std_id") \/ ~IsArray(body, "habit_ids") \/ FalsyStr(body, "log_date")

\* ------------------------------------------------------------------ POST /habit-log
PostHabitLog(c, body, h) ==
  /\ Free(c)
  /\ req' = [req EXCEPT ![c] =
       IF HabitLogInvalid(body)
       THEN Respond(Await("POST /habit-log", body, "start"), 400)
       ELSE Await("POST /habit-log", body, "delete")]
  /\ hist' = Track(c, h)
  /\ UNCHANGED <<Habit_Log, Appointment, Notification, Mood_log>>

\* The DELETE is executed (ok) or fails; then the loop issues its first INSERT, or
\* the empty array is answered at once.
HabitLogDelete(c, ok) ==
  /\ req[c].op = "POST /habit-log" /\ req[c].pc = "delete"
  /\ LET b == req[c].body IN
     IF ok
     THEN /\ Habit_Log' = DeleteHabitLog(Habit_Log, b.std_id, b.log_date)
          /\ req' = [req EXCEPT ![c] =
               IF Len(b.habit_ids.items) = 0 THEN Respond(@, 200)
               ELSE [@ EXCEPT !.pc = "insert", !.i = 1]]
     ELSE /\ Habit_Log' = Habit_Log
          /\ req' = [req EXCEPT ![c] = Respond(@, 500)]
  /\ UNCHANGED <<Appointment, Notification, Mood_log, hist>>

\* One INSERT of the loop is executed or fails; after the last one the answer is 200.
HabitLogInsert(c, ok) ==
  /\ req[c].op = "POST /habit-log" /\ req[c].pc = "insert"
  /\ LET b == req[c].body
         hid == b.habit_ids.items[req[c].i]
     IN
     IF ok /\ HabitLogAccepts(b.std_id, hid)
     THEN /\ Habit_Log' = InsertHabitLog(Habit_Log, b.std_id, hid, b.log_date)
          /\ req' = [req EXCEPT ![c] =
               IF req[c].i = Len(b.habit_ids.items) THEN Respond(@, 200)
               ELSE [@ EXCEPT !.i = @ + 1]]
     ELSE /\ Habit_Log' = Habit_Log
          /\ req' = [req EXCEPT ![c] = Respond(@, 500)]
  /\ UNCHANGED <<Appointment, Notification, Mood_log, hist>>

\* ------------------------------------------------------------------ GET /habit-log/:std_id
\* log_date defaults to today's date (today: what the clock says).
GetHabitLog(c, body, today, h) ==
  /\ Free(c)
  /\ req' = [req EXCEPT ![c] =
       [Await("GET /habit-log", body, "select") EXCEPT
          !.date = IF FalsyStr(body, "log_date") THEN today ELSE body.log_date]]
  /\ hist' = Track(c, h)
  /\ UNCHANGED <<Habit_Log, Appointment, Notification, Mood_log>>

HabitLogSelect(c, ok) ==
  /\ req[c].op = "GET /habit-log" /\ req[c].pc = "select"
  /\ LET r == req[c] IN
     req' = [req EXCEPT ![c] =
       IF ok
       THEN Respond([r EXCEPT !.rows = SelectHabitLog(Habit_Log, r.body.std_id, r.date)], 200)
       ELSE Respond(r, 500)]
  /\ UNCHANGED <<Habit_Log, Appointment, Notification, Mood_log, hist>>

\* ------------------------------------------------------------------ Appointment statements
\* AUTO_INCREMENT: the next id of a table whose rows are never deleted.
NextId(ids) == IF ids = {} THEN 1 ELSE (CHOOSE m \in ids : \A n \in ids : n <= m) + 1
\* Mutant of the validation: appointment_time is not looked at.
AppointmentInvalid_NoTime(body) ==
  \/ FalsyNum(body, "std_id")
  \/ FalsyStr(body, "appointment_type")
  \/ FalsyStr(body, "professional_name")
  \/ FalsyStr(body, "appointment_date")
\* The validation of POST /appointments.
AppointmentInvalid(body) ==
  \/ FalsyNum(body, "std_id")
  \/ FalsyStr(body, "appointment_type")
  \/ FalsyStr(body, "professional_name")
  \/ FalsyStr(body, "appointment_date")
  \/ FalsyStr(body, "appointment_time")
\* The foreign key of Appointment and of Notification: the student must exist.
StudentExists(std_id) == std_id \in Student
\* Mutant of the INSERT: the appointment is not written.
InsertAppointment_None(tbl, body) == tbl
\* INSERT INTO Appointment (..., status) VALUES (?, ?, ?, ?, ?, ?, 'Pending')
InsertAppointment(tbl, body) ==
  tbl \cup {[appoint_id |-> NextId({a.appoint_id : a \in tbl}),
             std_id |-> body.std_id,
             appointment_type |-> body.appointment_type,
             professional_name |-> body.professional_name,
             appointment_date |-> body.appointment_date,
             appointment_time |-> body.appointment_time,
             status |-> "Pending",
             reason |-> OrNull(body, "reason"),
             session_note |-> NULL]}
\* `Appointment booked with ${professional_name} on ${appointment_date} at ${appointment_time}`
BookedMsg(body) ==
  <<"Appointment booked with ", body.professional_name, " on ", body.appointment_date,
    " at ", body.appointment_time>>
\* Mutant of the companion INSERT: the notification is not written.
InsertNotification_None(tbl, body) == tbl
\* INSERT INTO Notification (...) VALUES (?, ?, 0, 1, 0, 0)
InsertNotification(tbl, body) ==
  tbl \cup {[n_id |-> NextId({n.n_id : n \in tbl}), std_id |-> body.std_id,
             msg |-> BookedMsg(body), is_read |-> 0, appointment_reminder |-> 1,
             mood_reminder |-> 0, habit_reminder |-> 0]}
\* Mutant of the allowed statuses: Pending is allowed too.
AllowedStatuses_WithPending == {"Pending", "Approved", "Cancelled", "Completed"}
\* ["Approved", "Cancelled", "Completed"].includes(status)
AllowedStatuses == {"Approved", "Cancelled", "Completed"}
\* Mutant of the validation: only a missing status is refused.
StatusInvalid_OnlyMissing(body) == "status" \notin DOMAIN body
StatusInvalid(body) == "status" \notin DOMAIN body \/ body.status \notin AllowedStatuses
\* Mutants of the UPDATE: an id that matches no row gets a row of its own; the
\* reason is reset along with the status; only a Pending row is updated; the
\* WHERE clause is left out.
UpdateStatus_Upsert(tbl, id, status) ==
  IF \E a \in tbl : a.appoint_id = id
  THEN {IF a.appoint_id = id THEN [a EXCEPT !.status = status] ELSE a : a \in tbl}
  ELSE tbl \cup {[appoint_id |-> id, std_id |-> 0, appointment_type |-> "",
                  professional_name |-> "", appointment_date |-> "", appointment_time |-> "",
                  status |-> status, reason |-> NULL, session_note |-> NULL]}
UpdateStatus_ClearsReason(tbl, id, status) ==
  {IF a.appoint_id = id THEN [a EXCEPT !.status = status, !.reason = NULL] ELSE a : a \in tbl}
UpdateStatus_OnlyPending(tbl, id, status) ==
  {IF a.appoint_id = id /\ a.status = "Pending" THEN [a EXCEPT !.status = status] ELSE a :
     a \in tbl}
UpdateStatus_AllRows(tbl, id, status) == {[a EXCEPT !.status = status] : a \in tbl}
\* UPDATE Appointment SET status = ? WHERE appoint_id = ?
UpdateStatus(tbl, id, status) ==
  {IF a.appoint_id = id THEN [a EXCEPT !.status = status] ELSE a : a \in tbl}
\* Mutant of the UPDATE: the flag is flipped instead of set.
MarkRead_Toggle(tbl, n_id) ==
  {IF n.n_id = n_id THEN [n EXCEPT !.is_read = 1 - @] ELSE n : n \in tbl}
\* UPDATE Notification SET is_read = 1 WHERE n_id = ?
MarkRead(tbl, n_id) ==
  {IF n.n_id = n_id THEN [n EXCEPT !.is_read = 1] ELSE n : n \in tbl}

\* ------------------------------------------------------------------ POST /appointments
\* Requests that may still insert an appointment (the bound on the table counts them).
Booking == {c \in Clients : req[c].op = "POST /appointments" /\ req[c].pc = "insertAppointment"}
PostAppointment(c, body, h) ==
  /\ Free(c)
  /\ Cardinality(Appointment) + Cardinality(Booking) < MaxAppointments
  /\ req' = [req EXCEPT ![c] =
       IF AppointmentInvalid(body)
       THEN Respond(Await("POST /appointments", body, "start"), 400)
       ELSE Await("POST /appointments", body, "insertAppointment")]
  /\ hist' = Track(c, h)
  /\ UNCHANGED <<Habit_Log, Appointment, Notification, Mood_log>>

AppointmentInsert(c, ok) ==
  /\ req[c].op = "POST /appointments" /\ req[c].pc = "insertAppointment"
  /\ IF ok /\ StudentExists(req[c].body.std_id)
     THEN /\ Appointment' = InsertAppointment(Appointment, req[c].body)
          /\ req' = [req EXCEPT ![c].pc = "insertNotification"]
     ELSE /\ Appointment' = Appointment
          /\ req' = [req EXCEPT ![c] = Respond(@, 500)]
  /\ UNCHANGED <<Habit_Log, Notification, Mood_log, hist>>

NotificationInsert(c, ok) ==
  /\ req[c].op = "POST /appointments" /\ req[c].pc = "insertNotification"
  /\ IF ok /\ StudentExists(req[c].body.std_id)
     THEN /\ Notification' = InsertNotification(Notification, req[c].body)
          /\ req' = [req EXCEPT ![c] = Respond(@, 201)]
     ELSE /\ Notification' = Notification
          /\ req' = [req EXCEPT ![c] = Respond(@, 500)]
  /\ UNCHANGED <<Habit_Log, Appointment, Mood_log, hist>>

\* ------------------------------------------------------------------ PUT /appointments/status/:id
\* The first handler registered for the path (the second one, registered after it
\* for the same path, is never reached: the first always ends the request).
PutStatus(c, body, h) ==
  /\ Free(c)
  /\ req' = [req EXCEPT ![c] =
       IF StatusInvalid(body)
       THEN Respond(Await("PUT /appointments/status", body, "start"), 400)
       ELSE Await("PUT /appointments/status", body, "update")]
  /\ hist' = Track(c, h)
  /\ UNCHANGED <<Habit_Log, Appointment, Notification, Mood_log>>

\* The UPDATE is executed, or it fails.  The handler has no try/catch: what becomes
\* of the rejected promise depends on the express release that is installed,
\* which server.js does not fix.  A router that does not look at
\* the promise a handler returns sends no answer at all (the request hangs, or
\* the process ends on the unhandled rejection); one that forwards the rejection
\* to its default error handler answers 500 itself.
StatusUpdate(c, ok) ==
  /\ req[c].op = "PUT /appointments/status" /\ req[c].pc = "update"
  /\ IF ok
     THEN /\ Appointment' = UpdateStatus(Appointment, req[c].body.id, req[c].body.status)
          /\ req' = [req EXCEPT ![c] = Respond(@, 200)]
     ELSE /\ Appointment' = Appointment
          /\ \/ req' = [req EXCEPT ![c].pc = "hung"]
             \/ req' = [req EXCEPT ![c] = Respond(@, 500)]
  /\ UNCHANGED <<Habit_Log, Notification, Mood_log, hist>>

\* ------------------------------------------------------------------ PUT /notifications/read/:n_id
PutRead(c, body, h) ==
  /\ Free(c)
  /\ req' = [req EXCEPT ![c] = Await("PUT /notifications/read", body, "update")]
  /\ hist' = Track(c, h)
  /\ UNCHANGED <<Habit_Log, Appointment, Notification, Mood_log>>

ReadUpdate(c, ok) ==
  /\ req[c].op = "PUT /notifications/read" /\ req[c].pc = "update"
  /\ IF ok
     THEN /\ Notification' = MarkRead(Notification, req[c].body.n_id)
          /\ req' = [req EXCEPT ![c] = Respond(@, 200)]
     ELSE /\ Notification' = Notification
          /\ req' = [req EXCEPT ![c] = Respond(@, 500)]
  /\ UNCHANGED <<Habit_Log, Appointment, Mood_log, hist>>

\* ------------------------------------------------------------------ POST /mood-log
MoodLogInvalid(body) == FalsyNum(body, "std_id") \/ FalsyStr(body, "log_date")
\* INSERT INTO Mood_log (...) VALUES (?, ?, ?, ?, ?, ?, ?, ?)
InsertMoodLog(tbl, body) ==
  tbl \cup {[log_id |-> NextId({m.log_id : m \in tbl}),
             std_id |-> body.std_id,
             log_date |-> body.log_date,
             mood_rating |-> OrNull(body, "mood_rating"),
             stress_level |-> OrNull(body, "stress_level"),
             energy_level |-> OrNull(body, "energy_level"),
             sleep_quantity |-> OrNull(body, "sleep_quantity"),
             emotional_status |-> OrNull(body, "emotional_status"),
             notes |-> OrNull(body, "notes")]}

PostMoodLog(c, body, h) ==
  /\ Free(c)
  /\ Cardinality(Mood_log) < MaxMoodLogs
  /\ req' = [req EXCEPT ![c] =
       IF MoodLogInvalid(body)
       THEN Respond(Await("POST /mood-log", body, "start"), 400)
       ELSE Await("POST /mood-log", body, "insert")]
  /\ hist' = Track(c, h)
  /\ UNCHANGED <<Habit_Log, Appointment, Notification, Mood_log>>

MoodLogInsert(c, ok) ==
  /\ req[c].op = "POST /mood-log" /\ req[c].pc = "insert"
  /\ IF ok /\ StudentExists(req[c].body.std_id)
     THEN /\ Mood_log' = InsertMoodLog(Mood_log, req[c].body)
          /\ req' = [req EXCEPT ![c] = Respond(@, 201)]
     ELSE /\ Mood_log' = Mood_log
          /\ req' = [req EXCEPT ![c] = Respond(@, 500)]
  /\ UNCHANGED <<Habit_Log, Appointment, Notification, hist>>

\* ------------------------------------------------------------------ inputs
Today == "2026-01-06"
Tomorrow == "2026-01-07"
Arrays(S, n) == UNION {[1..k -> S] : k \in 0..n}
Arr(a) == [isArray |-> TRUE, items |-> a]
NotAnArray == [isArray |-> FALSE, items |-> <<>>]
\* The habits the clients tick, two of the seeded five, and an id of no habit.
Ticked == {1, 2}
UnknownHabit == Cardinality(Habit) + 1
HabitLogBody(s, a, d) == [std_id |-> s, habit_ids |-> a, log_date |-> d]
\* Bodies that fail the validation, one per way of failing it.
BadHabitLogBodies ==
  LET g == HabitLogBody(101, Arr(<<1>>), Today)
  IN {Drop(g, "std_id"), [g EXCEPT !.std_id = 0], Drop(g, "habit_ids"),
      [g EXCEPT !.habit_ids = NotAnArray], Drop(g, "log_date"), [g EXCEPT !.log_date = ""]}

\* The two racing clients: known student, one day, known habits.
ConcHabitLogBodies ==
  {HabitLogBody(101, Arr(a), Today) : a \in Arrays(Ticked, MaxLen)}
\* The sequential client: every array for one day, a second day, an unknown
\* student, an unknown habit first or second in the array, and the bodies the
\* validation rejects.
SeqHabitLogBodies ==
  {HabitLogBody(101, Arr(a), Today) :
     a \in Arrays(Ticked, MaxLen) \cup {<<UnknownHabit>>, <<1, UnknownHabit>>}}
  \cup {HabitLogBody(101, Arr(a), Tomorrow) : a \in Arrays({1}, 1)}
  \cup {HabitLogBody(102, Arr(<<1>>), Today)}
  \cup BadHabitLogBodies
SeqHabitLogQueries ==
  {[std_id |-> 101, log_date |-> d] : d \in {Today, Tomorrow}} \cup {[std_id |-> 101]}

Booking101 ==
  [std_id |-> 101, appointment_type |-> "Counselor", professional_name |-> "Dr. Rahman",
   appointment_date |-> "2026-01-10", appointment_time |-> "14:00",
   reason |-> "Stress management"]
RequiredFields ==
  {"std_id", "appointment_type", "professional_name", "appointment_date", "appointment_time"}
\* Each required field left out, or sent empty (0 for the student id).
BadAppointmentBodies ==
  {Drop(Booking101, k) : k \in RequiredFields}
  \cup {[Booking101 EXCEPT ![k] = IF k = "std_id" THEN 0 ELSE ""] : k \in RequiredFields}
\* With and without a reason, for the known student and for an unknown one.
GoodAppointmentBodies ==
  {Booking101, Drop(Booking101, "reason"), [Booking101 EXCEPT !.std_id = 102]}
\* The allowed statuses for every id the table can hold (an id above the rows
\* present matches no row); other statuses, and none, for the first appointment.
StatusBodies(others) ==
  {[id |-> i, status |-> s] : i \in 1..MaxAppointments, s \in AllowedStatuses}
  \cup {[id |-> 1, status |-> s] : s \in others} \cup {[id |-> 1]}
\* The two racing clients update the first two appointments.
ConcStatusBodies == {b \in StatusBodies({"Pending", "Rejected"}) : b.id \in {1, 2}}
\* The welcome notification's id, every booking's, and one that no row has.
ReadBodies == {[n_id |-> i] : i \in 1..(MaxAppointments + 2)}

\* The mood log of the handler's documentation, with and without notes, without
\* a day, and for an unknown student.
MoodLog101 ==
  [std_id |-> 101, log_date |-> Today, mood_rating |-> 4, stress_level |-> 2,
   energy_level |-> 3, sleep_quantity |-> 2, emotional_status |-> "Calm",
   notes |-> "Good day overall"]
MoodLogBodies ==
  {MoodLog101, Drop(MoodLog101, "notes"), Drop(MoodLog101, "log_date"),
   [MoodLog101 EXCEPT !.std_id = 102]}

\* ------------------------------------------------------------------ specifications
Init ==
  /\ Habit_Log = EmptyBag
  /\ Appointment = {}
  /\ Notification = {Welcome}
  /\ Mood_log = {}
  /\ req = [c \in Clients |-> Idle]
  /\ hist = [pre |-> [hl |-> EmptyBag, ap |-> {}, nt |-> {Welcome}, ml |-> {}], last |-> NoCall]

\* Two clients of the habit log whose requests interleave.
HabitNext ==
  \E c \in Clients :
    \/ \E body \in ConcHabitLogBodies : PostHabitLog(c, body, "none")
    \/ \E ok \in BOOLEAN : HabitLogDelete(c, ok)
    \/ \E ok \in BOOLEAN : HabitLogInsert(c, ok)
    \/ \E body \in {[std_id |-> 101, log_date |-> Today]} : GetHabitLog(c, body, Today, "none")
    \/ \E ok \in BOOLEAN : HabitLogSelect(c, ok)

HabitSpec == Init /\ [][HabitNext]_vars

\* Two clients that book appointments and update their status.
ApptNext ==
  \E c \in Clients :
    \/ \E body \in {Booking101, Drop(Booking101, "appointment_time")} :
         PostAppointment(c, body, "none")
    \/ \E ok \in BOOLEAN : AppointmentInsert(c, ok)
    \/ \E ok \in BOOLEAN : NotificationInsert(c, ok)
    \/ \E body \in ConcStatusBodies : PutStatus(c, body, "none")
    \/ \E ok \in BOOLEAN : StatusUpdate(c, ok)

ApptSpec == Init /\ [][ApptNext]_vars

\* Two clients that mark notifications as read while appointments are booked.
ReadNext ==
  \E c \in Clients :
    \/ \E body \in {Booking101} : PostAppointment(c, body, "none")
    \/ \E ok \in BOOLEAN : AppointmentInsert(c, ok)
    \/ \E ok \in BOOLEAN : NotificationInsert(c, ok)
    \/ \E body \in ReadBodies : PutRead(c, body, "none")
    \/ \E ok \in BOOLEAN : ReadUpdate(c, ok)

ReadSpec == Init /\ [][ReadNext]_vars

\* Two clients that save mood logs.
MoodNext ==
  \E c \in Clients :
    \/ \E body \in MoodLogBodies : PostMoodLog(c, body, "none")
    \/ \E ok \in BOOLEAN : MoodLogInsert(c, ok)

\* The whole server.
Next == HabitNext \/ ApptNext \/ ReadNext \/ MoodNext

Spec == Init /\ [][Next]_vars

\* One client of the habit log that sends a call only after the answer to the one before.
HabitSeqNext ==
  \E c \in {"c1"} :
    \/ \E body \in SeqHabitLogBodies : PostHabitLog(c, body, "calls")
    \/ \E ok \in BOOLEAN : HabitLogDelete(c, ok)
    \/ \E ok \in BOOLEAN : HabitLogInsert(c, ok)
    \/ \E body \in SeqHabitLogQueries, today \in {Today, Tomorrow} : GetHabitLog(c, body, today, "calls")
    \/ \E ok \in BOOLEAN : HabitLogSelect(c, ok)

HabitSeqSpec == Init /\ [][HabitSeqNext]_vars

\* One client that books appointments and updates their status, one call after the other.
ApptSeqNext ==
  \E c \in {"c1"} :
    \/ \E body \in GoodAppointmentBodies \cup BadAppointmentBodies : PostAppointment(c, body, "tables")
    \/ \E ok \in BOOLEAN : AppointmentInsert(c, ok)
    \/ \E ok \in BOOLEAN : NotificationInsert(c, ok)
    \/ \E body \in StatusBodies({"Pending", "Rejected", "approved", ""}) :
         PutStatus(c, body, "tables")
    \/ \E ok \in BOOLEAN : StatusUpdate(c, ok)

ApptSeqSpec == Init /\ [][ApptSeqNext]_vars

\* One client that submits habits, books appointments and saves mood logs, one
\* call after the other.
FrameNext ==
  \E c \in {"c1"} :
    \/ \E body \in SeqHabitLogBodies : PostHabitLog(c, body, "tables")
    \/ \E ok \in BOOLEAN : HabitLogDelete(c, ok)
    \/ \E ok \in BOOLEAN : HabitLogInsert(c, ok)
    \/ \E body \in {Booking101} : PostAppointment(c, body, "tables")
    \/ \E ok \in BOOLEAN : AppointmentInsert(c, ok)
    \/ \E ok \in BOOLEAN : NotificationInsert(c, ok)
    \/ \E body \in MoodLogBodies : PostMoodLog(c, body, "tables")
    \/ \E ok \in BOOLEAN : MoodLogInsert(c, ok)

FrameSpec == Init /\ [][FrameNext]_vars

\* A race of two submissions after earlier ones: client c1 submits one call after
\* the other, client c2 submits once, at any point of c1's last call or after
\* it, and every statement of the two calls interleaves.
HabitRaceNext ==
  \/ \E c \in Clients, body \in ConcHabitLogBodies :
       req["c2"].pc = "idle" /\ PostHabitLog(c, body, "race")
  \/ \E c \in Clients, ok \in BOOLEAN : HabitLogDelete(c, ok)
  \/ \E c \in Clients, ok \in BOOLEAN : HabitLogInsert(c, ok)

HabitRaceSpec == Init /\ [][HabitRaceNext]_vars

\* ------------------------------------------------------------------ claims: habit log
\* The sequential client's call that has just been answered, the call it made
\* before, and the pair (student, day) a habit-log call is about.
Call == req["c1"]
SavedOK(call) == call.op = "POST /habit-log" /\ call.code = 200
SamePair(a, b) == a.std_id = b.std_id /\ a.log_date = b.log_date
HabitIds(rows) == {o.habit_id : o \in DOMAIN rows}
Items(call) == call.body.habit_ids.items
\* The rows a habit_ids array asks for, one per element.
RowsOf(items) ==
  LET ids == Range(items)
      n(h) == Cardinality({i \in 1..Len(items) : items[i] = h})
  IN [o \in {[habit_id |-> h, completed |-> 1] : h \in ids} |-> n(o.habit_id)]
FetchedOK == Call.op = "GET /habit-log" /\ Call.pc = "done" /\ Call.code = 200

\* C1: a successful POST /habit-log followed at once by GET /habit-log for the same
\* student and day returns exactly the set of the submitted ids, each completed.
C1_RoundTrip ==
  (/\ FetchedOK
   /\ SavedOK(hist.last)
   /\ hist.last.body.std_id = Call.body.std_id
   /\ hist.last.body.log_date = Call.date)
  => /\ HabitIds(Call.rows) = Range(Items(hist.last))
     /\ \A o \in DOMAIN Call.rows : o.completed = 1
\* The round trip has happened over rows of an earlier submission and of another day.
C1_Witness ==
  /\ FetchedOK /\ SavedOK(hist.last)
  /\ hist.last.body.std_id = Call.body.std_id /\ hist.last.body.log_date = Call.date
  /\ Items(hist.last) = <<2>>
  /\ \E r \in DOMAIN Habit_Log : r.log_date # Call.date

\* C2: two successful submissions A then B for the same student and day, one after
\* the other, leave exactly the rows of B; no habit of A that is not in B remains.
C2_Replace ==
  (/\ Call.pc = "done" /\ SavedOK(Call) /\ SavedOK(hist.last)
   /\ SamePair(Call.body, hist.last.body))
  => /\ SelectHabitLog(Habit_Log, Call.body.std_id, Call.body.log_date) = RowsOf(Items(Call))
     /\ HabitIds(SelectHabitLog(Habit_Log, Call.body.std_id, Call.body.log_date))
          \cap (Range(Items(hist.last)) \ Range(Items(Call))) = {}
\* B has replaced an A that held a habit B does not hold.
C2_Witness ==
  /\ Call.pc = "done" /\ SavedOK(Call) /\ SavedOK(hist.last)
  /\ SamePair(Call.body, hist.last.body)
  /\ Range(Items(hist.last)) \ Range(Items(Call)) # {}
  /\ Items(Call) # <<>>

\* C3 (as claimed): after a completed submission, whatever the array, the rows of
\* its student and day are one row per submitted habit, and no two rows of the
\* table agree on student, habit and day.
C3_NoStaleNoDuplicate ==
  (Call.pc = "done" /\ SavedOK(Call))
  => /\ SelectHabitLog(Habit_Log, Call.body.std_id, Call.body.log_date)
          = SetToBag({[habit_id |-> h, completed |-> 1] : h \in Range(Items(Call))})
     /\ \A r \in DOMAIN Habit_Log : Habit_Log[r] = 1

\* C5: submitting the same set again for the same student and day leaves the
\* table as the first submission left it: the same rows for that pair, and the
\* rows of every other pair untouched.
C5_Idempotent ==
  (/\ Call.pc = "done" /\ SavedOK(Call) /\ SavedOK(hist.last)
   /\ Call.body = hist.last.body)
  => Habit_Log = hist.pre.hl
\* A non-empty set has been resubmitted while another day held rows.
C5_Witness ==
  /\ Call.pc = "done" /\ SavedOK(Call) /\ SavedOK(hist.last)
  /\ Call.body = hist.last.body
  /\ Len(Items(Call)) = 2
  /\ \E r \in DOMAIN Habit_Log : ~SamePair(r, Call.body)

\* Both clients' latest calls are successful submissions for the same student and day.
BothSaved ==
  /\ \A c \in Clients : req[c].pc = "done" /\ SavedOK(req[c])
  /\ SamePair(req["c1"].body, req["c2"].body)
Present == HabitIds(SelectHabitLog(Habit_Log, req["c1"].body.std_id, req["c1"].body.log_date))

Created == Call.op = "POST /appointments" /\ Call.pc = "done"
AllPresent(body) ==
  /\ RequiredFields \subseteq DOMAIN body
  /\ body.std_id # 0
  /\ \A k \in RequiredFields \ {"std_id"} : body[k] # ""
\* Exactly one appointment row is new, Pending and built from the body; exactly one
\* notification row is new, unread and for the body's student; nothing else differs.
OneOfEach(body) ==
  /\ \E a \in Appointment \ hist.pre.ap :
       /\ Appointment = hist.pre.ap \cup {a}
       /\ a.appoint_id \notin {b.appoint_id : b \in hist.pre.ap}
       /\ a.status = "Pending"
       /\ a.std_id = body.std_id
       /\ a.appointment_type = body.appointment_type
       /\ a.professional_name = body.professional_name
       /\ a.appointment_date = body.appointment_date
       /\ a.appointment_time = body.appointment_time
  /\ \E n \in Notification \ hist.pre.nt :
       /\ Notification = hist.pre.nt \cup {n}
       /\ n.n_id \notin {m.n_id : m \in hist.pre.nt}
       /\ n.std_id = body.std_id
       /\ n.is_read = 0
  /\ Habit_Log = hist.pre.hl

\* C6 (as claimed): a POST /appointments with all five required fields present
\* always ends with one new Pending appointment and one new unread notification.
C6_AlwaysOneOfEach ==
  (Created /\ AllPresent(Call.body)) => OneOfEach(Call.body)
\* C6 (amended): it does so whenever the call succeeds (201); with the five fields
\* present the answer is 201 or 500, never 400.
C6_OneOfEachOn201 ==
  (Created /\ AllPresent(Call.body))
  => /\ Call.code \in {201, 500}
     /\ Call.code = 201 => OneOfEach(Call.body)
\* A second appointment has been booked with success.
C6_Witness ==
  /\ Created /\ AllPresent(Call.body) /\ Call.code = 201
  /\ hist.pre.ap # {}
  /\ "reason" \notin DOMAIN Call.body

\* C7: a POST /appointments that lacks a required field is answered 400 and the
\* tables are as they were before the call.
C7_MissingFieldRejected ==
  (/\ Call.op = "POST /appointments"
   /\ \E k \in RequiredFields : k \notin DOMAIN Call.body)
  => /\ Call.pc = "done" /\ Call.code = 400
     /\ Tables = hist.pre
\* A booking without appointment_time has been rejected while rows existed.
C7_Witness ==
  /\ Created /\ Call.code = 400
  /\ DOMAIN Call.body = DOMAIN Booking101 \ {"appointment_time"}
  /\ Appointment # {}

StatusCall == Call.op = "PUT /appointments/status"
\* C8: a status update to Approved, Cancelled or Completed changes the status of
\* the appointment with that id to the new value and nothing else: the same
\* appointments exist with every other field as before, the other appointments
\* keep their status, and the other tables are untouched; an update the store
\* fails changes nothing.
C8_OnlyStatusOfTarget ==
  (/\ StatusCall
   /\ "status" \in DOMAIN Call.body
   /\ Call.body.status \in {"Approved", "Cancelled", "Completed"})
  => /\ Call.pc \in {"update", "hung", "done"}
     /\ Call.pc = "done" => Call.code \in {200, 500}
     /\ (Call.pc \in {"update", "hung"} \/ Call.code = 500) => Tables = hist.pre
     /\ (Call.pc = "done" /\ Call.code = 200) =>
          /\ Cardinality(Appointment) = Cardinality(hist.pre.ap)
          /\ \A b \in hist.pre.ap :
               \E a \in Appointment :
                 /\ a.appoint_id = b.appoint_id
                 /\ [a EXCEPT !.status = b.status] = b
                 /\ a.status = IF b.appoint_id = Call.body.id THEN Call.body.status
                                ELSE b.status
          /\ Notification = hist.pre.nt
          /\ Habit_Log = hist.pre.hl
\* One of two appointments has been moved to a status the other does not have.
C8_Witness ==
  /\ StatusCall /\ Call.pc = "done" /\ Call.code = 200
  /\ Cardinality(Appointment) = 2
  /\ \E a \in Appointment : a.appoint_id = Call.body.id /\ a.status = "Completed"
  /\ \E a \in Appointment : a.appoint_id # Call.body.id /\ a.status = "Approved"
  /\ \E b \in hist.pre.ap : b.appoint_id = Call.body.id /\ b.status = "Cancelled"

\* C9: a status update whose status is Pending, any other value outside Approved,
\* Cancelled, Completed, or missing is answered 400 and changes no table.
C9_InvalidStatusRejected ==
  (/\ StatusCall
   /\ \/ "status" \notin DOMAIN Call.body
      \/ Call.body.status \notin {"Approved", "Cancelled", "Completed"})
  => /\ Call.pc = "done" /\ Call.code = 400
     /\ Tables = hist.pre
\* Pending has been refused for an appointment that had left Pending.
C9_Witness ==
  /\ StatusCall /\ Call.pc = "done" /\ Call.code = 400
  /\ "status" \in DOMAIN Call.body /\ Call.body.status = "Pending"
  /\ \E a \in Appointment : a.appoint_id = Call.body.id /\ a.status = "Approved"

FourStatuses == {"Pending", "Approved", "Cancelled", "Completed"}
\* C10: in every state every appointment's status is one of the four values, and
\* a row that appears in the table appears with status Pending.
C10_StatusDomain ==
  /\ [](\A a \in Appointment : a.status \in FourStatuses)
  /\ [][\A a \in Appointment' :
          a.appoint_id \notin {b.appoint_id : b \in Appointment} => a.status = "Pending"]_vars
\* One appointment has been moved on, a later one is still Pending, and a status
\* outside the allowed ones has been refused.
C10_Witness ==
  /\ \E a \in Appointment : a.status = "Completed"
  /\ \E a \in Appointment : a.status = "Pending" /\ a.appoint_id = 2
  /\ \E c \in Clients : req[c].op = "PUT /appointments/status" /\ req[c].code = 400

\* C11: Pending is entry-only.  In every step, an appointment whose status is not
\* Pending is not Pending afterwards: no request moves an appointment from
\* Approved, Cancelled or Completed back to Pending.
C11_PendingEntryOnly ==
  [][\A a \in Appointment : \A b \in Appointment' :
       (b.appoint_id = a.appoint_id /\ a.status # "Pending") => b.status # "Pending"]_vars
\* A request for Pending has been answered for an appointment that had been
\* moved on, while the other client's update of the same appointment succeeded.
C11_Witness ==
  \E c \in Clients : \E d \in Clients \ {c} :
    /\ req[c].op = "PUT /appointments/status" /\ req[c].pc = "done"
    /\ "status" \in DOMAIN req[c].body /\ req[c].body.status = "Pending"
    /\ req[d].op = "PUT /appointments/status" /\ req[d].pc = "done" /\ req[d].code = 200
    /\ req[d].body.id = req[c].body.id
    /\ \E a \in Appointment : a.appoint_id = req[c].body.id /\ a.status = "Cancelled"

ValidStatusCall ==
  /\ StatusCall
  /\ "status" \in DOMAIN Call.body
  /\ Call.body.status \in {"Approved", "Cancelled", "Completed"}
KnownId == \E b \in hist.pre.ap : b.appoint_id = Call.body.id
\* C12: a status update with a valid status for an id that no appointment has is
\* not refused (no 400, no 404): it is answered 200 when the store executes the
\* UPDATE, and at every point of the call the tables are as they were before it.
C12_UnknownIdNoOp ==
  (ValidStatusCall /\ ~KnownId)
  => /\ Tables = hist.pre
     /\ Call.pc = "done" => Call.code \in {200, 500}
\* An update for the id after the last appointment's has been answered 200.
C12_Witness ==
  /\ ValidStatusCall /\ ~KnownId
  /\ Call.pc = "done" /\ Call.code = 200
  /\ hist.pre.ap # {}
  /\ \E b \in Appointment : b.status # "Pending"

\* ------------------------------------------------------------------ claims: notifications
\* The client's mark-read request for notification id is executed in this step.
Marks(c, id) ==
  /\ req[c].op = "PUT /notifications/read" /\ req[c].pc = "update"
  /\ req[c].body.n_id = id
  /\ req'[c].pc = "done" /\ req'[c].code = 200
\* C13: is_read is one-way.  In every step a notification that appears appears
\* unread; every notification stays, with every field but is_read as it was; a
\* read notification stays read; and is_read changes, from 0 to 1, only on the
\* notification that a mark-read request executed in that step targets, which is
\* read afterwards (so marking a read notification again changes nothing).
C13_ReadOneWay ==
  [][/\ \A m \in Notification' :
          m.n_id \notin {n.n_id : n \in Notification} => m.is_read = 0
     /\ \A n \in Notification :
          \E m \in Notification' :
            /\ m.n_id = n.n_id
            /\ [m EXCEPT !.is_read = n.is_read] = n
            /\ n.is_read = 1 => m.is_read = 1
            /\ m.is_read # n.is_read => \E c \in Clients : Marks(c, n.n_id)
            /\ (\E c \in Clients : Marks(c, n.n_id)) => m.is_read = 1
    ]_vars
\* Both clients have marked the first booking's notification, which is read; the
\* welcome notification and a later booking's are unread.
C13_Witness ==
  /\ \A c \in Clients :
       /\ req[c].op = "PUT /notifications/read" /\ req[c].pc = "done" /\ req[c].code = 200
       /\ req[c].body.n_id = 2
  /\ \E n \in Notification : n.n_id = 2 /\ n.is_read = 1
  /\ \E n \in Notification : n.n_id = 1 /\ n.is_read = 0
  /\ \E n \in Notification : n.n_id = 3 /\ n.is_read = 0

\* ------------------------------------------------------------------ claims: failures
\* C14 (as claimed): a store statement that fails is surfaced to the caller by
\* every endpoint, the status update included: no request ends without an answer.
C14_FailureAnswered == \A c \in Clients : req[c].pc # "hung"

\* A field of the body the handler takes as not given: absent, or the empty value
\* (0 for the student id, "" for the day).
NotGiven(body, k) == k \notin DOMAIN body \/ body[k] = (IF k = "std_id" THEN 0 ELSE "")
HabitLogCall == Call.op = "POST /habit-log"
Rejected400 == Call.pc = "done" /\ Call.code = 400
PairRows(log, body) == SelectHabitLog(log, body.std_id, body.log_date)
C16_OnlyStatusMutated ==
  [][\A a \in Appointment :
       \E b \in Appointment' :
         /\ b.appoint_id = a.appoint_id
         /\ [b EXCEPT !.status = a.status] = a]_vars
\* Both clients have updated appointments with success; both appointments have
\* left Pending and still carry what they were booked with.
C16_Witness ==
  /\ \A c \in Clients :
       req[c].op = "PUT /appointments/status" /\ req[c].pc = "done" /\ req[c].code = 200
  /\ req["c1"].body.id # req["c2"].body.id
  /\ Cardinality(Appointment) = 2
  /\ \A a \in Appointment :
       /\ a.status # "Pending"
       /\ a.reason = Booking101.reason
       /\ a.professional_name = Booking101.professional_name

\* C17: transitions between statuses are not blocked.  A status update with
\* Approved, Cancelled or Completed for an existing appointment is never refused,
\* whatever the appointment's status was, and when the store executes it the
\* appointment has the requested status.
C17_AnyTransition ==
  (ValidStatusCall /\ KnownId /\ Call.pc = "done")
  => /\ Call.code \in {200, 500}
     /\ Call.code = 200 =>
          \A b \in hist.pre.ap :
            (b.appoint_id = Call.body.id /\ b.status \in FourStatuses) =>
              \E a \in Appointment : a.appoint_id = b.appoint_id /\ a.status = Call.body.status
\* A Completed appointment has been moved to Approved.
C17_Witness ==
  /\ ValidStatusCall /\ Call.pc = "done" /\ Call.code = 200
  /\ Call.body.status = "Approved"
  /\ \E b \in hist.pre.ap : b.appoint_id = Call.body.id /\ b.status = "Completed"
  /\ \E a \in Appointment : a.appoint_id = Call.body.id /\ a.status = "Approved"

\* ------------------------------------------------------------------ claims: partial failure
\* After the DELETE: the rows of the call's student and day are one row for each
\* of the ids inserted so far, the first i - 1 of the array.
RowsAreInsertedSoFar ==
  (HabitLogCall /\ Call.i >= 1 /\ (Call.pc = "insert" \/ (Call.pc = "done" /\ Call.code = 500)))
  => PairRows(Habit_Log, Call.body) = RowsOf(SubSeq(Items(Call), 1, Call.i - 1))
\* The DELETE itself has failed: the table is as before the call.
DeleteFailedKeepsRows ==
  (HabitLogCall /\ Call.pc = "done" /\ Call.code = 500 /\ Call.i = 0)
  => Habit_Log = hist.pre.hl
\* C18: the reconciliation is not atomic.  When the call stops or a statement
\* fails after the DELETE, the rows of its student and day are exactly the first
\* k ids of the array, the ones inserted until then (none if it stops before the
\* first INSERT), and nothing of what was there before the call is restored.
C18_NotRestored == RowsAreInsertedSoFar /\ DeleteFailedKeepsRows
\* The first INSERT has failed: the day had rows before the call and has none now.
C18_Witness ==
  /\ HabitLogCall /\ Call.pc = "done" /\ Call.code = 500 /\ Call.i = 1
  /\ PairRows(hist.pre.hl, Call.body) # EmptyBag
  /\ PairRows(Habit_Log, Call.body) = EmptyBag
\* The second of two INSERTs has failed: the first id is there, the day's earlier row is not.
C18_WitnessSecond ==
  /\ HabitLogCall /\ Call.pc = "done" /\ Call.code = 500 /\ Call.i = 2
  /\ HabitIds(PairRows(hist.pre.hl, Call.body)) = {2}
  /\ HabitIds(PairRows(Habit_Log, Call.body)) = {1}

\* The booking's appointment is the one new row, Pending, and no notification is new.
AppointmentAlone(ap, nt, body) ==
  /\ nt = hist.pre.nt
  /\ \E a \in ap \ hist.pre.ap :
       /\ ap = hist.pre.ap \cup {a}
       /\ a.status = "Pending"
       /\ a.std_id = body.std_id
       /\ a.professional_name = body.professional_name
\* C19: the creation is not atomic.  When the Notification INSERT fails after the
\* Appointment INSERT, the call is answered 500 and the new Pending appointment
\* stays, with no notification for it; when the Appointment INSERT fails the call
\* is answered 500 and neither row is created.
C19_PartialCreation ==
  [][/\ (Call.pc = "insertNotification" /\ Call'.pc = "done" /\ Call'.code # 201) =>
          /\ Call'.code = 500
          /\ AppointmentAlone(Appointment', Notification', Call.body)
     /\ (Call.pc = "insertAppointment" /\ Call'.pc = "done") =>
          /\ Call'.code = 500
          /\ Appointment' = hist.pre.ap /\ Notification' = hist.pre.nt
    ]_vars
\* A second booking has been answered 500 and has left its appointment behind.
C19_Witness ==
  /\ Created /\ Call.code = 500
  /\ hist.pre.ap # {}
  /\ AppointmentAlone(Appointment, Notification, Call.body)

\* ------------------------------------------------------------------ claims: frame
\* C20: whatever becomes of it (success, rejection, failure midway), a POST
\* /habit-log leaves the rows of every other (student, day) pair as they were,
\* each with the copies it had, and leaves Appointment, Notification and Mood_log
\* as they were.  (No handler writes the Habit catalog: it is the constant Habit.)
C20_ReconciliationFrame ==
  HabitLogCall =>
    /\ Appointment = hist.pre.ap
    /\ Notification = hist.pre.nt
    /\ Mood_log = hist.pre.ml
    /\ IF Rejected400 THEN Habit_Log = hist.pre.hl
       ELSE \A r \in DOMAIN Habit_Log \cup DOMAIN hist.pre.hl :
              ~SamePair(r, Call.body) => CopiesIn(r, Habit_Log) = CopiesIn(r, hist.pre.hl)
\* A submission has failed midway while another day had rows and the other
\* tables held an appointment, its notification and a mood log.
C20_Witness ==
  /\ HabitLogCall /\ Call.pc = "done" /\ Call.code = 500 /\ Call.i = 2
  /\ Habit_Log # hist.pre.hl
  /\ \E r \in DOMAIN Habit_Log : ~SamePair(r, Call.body)
  /\ Appointment # {} /\ Mood_log # {} /\ Cardinality(Notification) = 2

\* ------------------------------------------------------------------ claims: racing submissions
\* How often habit h occurs in a call's array, and how many rows the call's
\* student and day hold for it.
Occurs(call, h) == Cardinality({i \in 1..Len(Items(call)) : Items(call)[i] = h})
CopiesPresent(h) ==
  CopiesIn([habit_id |-> h, completed |-> 1], PairRows(Habit_Log, req["c1"].body))
\* The habits the pair held when the first of the two calls started.
HeldBefore == HabitIds(PairRows(hist.pre.hl, req["c1"].body))
\* C21: when two racing submissions A and B for the same student and day have
\* both succeeded, however their statements interleaved, the habits present
\* are among those of A and B, and no row from before the two calls is left: a
\* habit held before and named by neither is absent, and a habit has no more
\* rows than A and B together inserted for it.
C21_OnlyRowsOfTheTwo ==
  BothSaved =>
    /\ Present \subseteq Range(Items(req["c1"])) \cup Range(Items(req["c2"]))
    /\ \A h \in HeldBefore :
         h \notin Range(Items(req["c1"])) \cup Range(Items(req["c2"])) => h \notin Present
    /\ \A h \in Habit : CopiesPresent(h) <= Occurs(req["c1"], h) + Occurs(req["c2"], h)
\* Both DELETEs have run before both INSERTs: the habit of A and B is there
\* twice, and the habit the day held before the race is gone.
C21_Witness ==
  /\ BothSaved
  /\ Items(req["c1"]) = <<1>> /\ Items(req["c2"]) = <<1>>
  /\ HeldBefore = {2}
  /\ CopiesPresent(1) = 2 /\ CopiesPresent(2) = 0

\* ------------------------------------------------------------------ claims: order of the two inserts
\* The notifications that bookings have created (the seeded welcome is none).
BookingNotifications == {n \in Notification : n.appointment_reminder = 1}
\* C22: in every state, in the middle of concurrent bookings and after failures
\* too, a student has no more booking notifications than appointments, and
\* every booking notification has its appointment in the table: a row of the
\* same student whose professional, date and time are those of the message.
C22_AppointmentFirst ==
  /\ \A s \in {n.std_id : n \in BookingNotifications} :
       Cardinality({n \in BookingNotifications : n.std_id = s})
         <= Cardinality({a \in Appointment : a.std_id = s})
  /\ \A n \in BookingNotifications :
       \E a \in Appointment :
         /\ a.std_id = n.std_id
         /\ n.msg = <<"Appointment booked with ", a.professional_name, " on ",
                      a.appointment_date, " at ", a.appointment_time>>
\* One booking has succeeded and the other has failed at its notification: two
\* appointments, one booking notification.
C22_Witness ==
  /\ \E c \in Clients : req[c].op = "POST /appointments" /\ req[c].code = 201
  /\ \E c \in Clients : req[c].op = "POST /appointments" /\ req[c].code = 500
  /\ Cardinality(Appointment) = 2
  /\ Cardinality(BookingNotifications) = 1

====
